---- MODULE Spec2Model ----
(***************************************************************************)
(* Model of the authentication core of subseq_util: the OIDC token bundle  *)
(* and provider client (src/oidc.rs) and the warp session handlers         *)
(* (src/api/warp/sessions.rs) with the recover handlers that turn their   *)
(* rejections into responses (src/api/warp/mod.rs, src/api/mod.rs).        *)
(*                                                                         *)
(* Five specifications share the module:                                   *)
(*   Spec       the login / callback / logout handlers and the guard of    *)
(*              the protected routes, running as concurrent requests on    *)
(*              one browser session of the MemoryStore;                    *)
(*   SpecIdp    the provider-client operations token_oidc, validate_token  *)
(*              and refresh applied to bundles drawn from bounded sets;    *)
(*   SpecBearer the compact bearer form: bundles written in it and strings *)
(*              read by OidcToken::from_bearer.                            *)
(*   SpecReject the recover handlers applied to every kind of rejection;   *)
(*   SpecOne    the routes serving one client, request after request, with *)
(*              the response each request gets.                            *)
(***************************************************************************)
EXTENDS Integers, Sequences, FiniteSets, TLC

(***************************************************************************)
(* Bounds of the model.                                                    *)
(***************************************************************************)
\* number of login_oidc calls, each drawing fresh csrf / verifier / nonce
MaxLogins == 2
\* number of requests in flight at the same time on the session
MaxReq == 2
\* longest chain of refresh operations followed in SpecIdp
MaxRefresh == 2
\* longest access token, refresh token and nonce of SpecBearer, in characters
MaxField == 1
\* longest string handed to from_bearer in SpecBearer, in characters
MaxBearer == 7

(***************************************************************************)
(* Option<T> and Result<T, E>.                                             *)
(***************************************************************************)
None == <<>>
Some(v) == <<v>>
IsSome(o) == o # <<>>
Unwrap(o) == o[1]

Ok(v) == [ok |-> TRUE, val |-> <<v>>, err |-> ""]
Err(e) == [ok |-> FALSE, val |-> <<>>, err |-> e]

(***************************************************************************)
(* Values.  The three secrets of one login_oidc call are drawn fresh; the  *)
(* model numbers the calls and gives the secrets of call n the value n, so *)
(* that secrets of different calls are recognisable.                       *)
(***************************************************************************)
Rand == 1 .. MaxLogins
\* the `state` of a callback query is chosen by the client: 0 was never issued
States == 0 .. MaxLogins
AccessTokens == {"at1", "at2"}
RefreshTokens == {"rt1"}

\* AccessTokenHash::from_token: a digest of the access token
AccessTokenHash(access_token) == <<"hash", access_token>>

\* CoreIdToken: sig stands for the checks of the id-token verifier other than
\* the nonce (signature, issuer, audience, expiry); nonce and at_hash are claims
IdTokens ==
    [sig : BOOLEAN, nonce : 0 .. MaxLogins,
     at_hash : {None} \cup {Some(AccessTokenHash(a)) : a \in AccessTokens}]

\* CoreTokenResponse
TokenResponses ==
    [id_token : {None} \cup {Some(t) : t \in IdTokens},
     access_token : AccessTokens,
     refresh_token : {None} \cup {Some(t) : t \in RefreshTokens}]

\* what request_async(async_http_client) yields: a transport error or a response
TransportResults == {Err("transport")} \cup {Ok(resp) : resp \in TokenResponses}

\* the token endpoint's answers met in the login flow: a transport error, a
\* response without id token, and responses with one access token and one
\* refresh token whose id token is good for the nonce of one login, or badly
\* signed, or carries the hash of another access token
FlowIdTokens ==
    {[sig |-> TRUE, nonce |-> n, at_hash |-> Some(AccessTokenHash("at1"))] : n \in Rand}
        \cup {[sig |-> FALSE, nonce |-> 1, at_hash |-> Some(AccessTokenHash("at1"))],
              [sig |-> TRUE, nonce |-> 1, at_hash |-> Some(AccessTokenHash("at2"))]}
FlowResults ==
    {tr \in TransportResults :
        tr.ok => /\ Unwrap(tr.val).access_token = "at1"
                 /\ Unwrap(tr.val).refresh_token = Some("rt1")
                 /\ \/ Unwrap(tr.val).id_token = None
                    \/ Unwrap(Unwrap(tr.val).id_token) \in FlowIdTokens}

\* OidcToken
OidcTokens ==
    [id_token : IdTokens, access_token : AccessTokens,
     refresh_token : {None} \cup {Some(t) : t \in RefreshTokens},
     nonce : Rand]

(***************************************************************************)
(* Strings that are split and joined.  Such a string is the sequence of    *)
(* its characters; the compact serialization of an id token has no ":" in  *)
(* it and counts as one character.  Bundles that travel in bearer form     *)
(* carry their access token, refresh token and nonce as such strings.      *)
(***************************************************************************)
Chars == {"a", ":"}
\* the access tokens, refresh tokens and nonces: not empty
FieldTexts == UNION {[1 .. n -> Chars] : n \in 1 .. MaxField}

\* CoreIdToken of a bundle in bearer form
BearerIdTokens ==
    [sig : BOOLEAN, nonce : FieldTexts,
     at_hash : {None} \cup {Some(AccessTokenHash(a)) : a \in FieldTexts}]

\* OidcToken in bearer form
BearerBundles ==
    [id_token : BearerIdTokens, access_token : FieldTexts,
     refresh_token : {None} \cup {Some(t) : t \in FieldTexts},
     nonce : FieldTexts]

\* the compact JWT serialization of each id token
Jwt == [t \in BearerIdTokens |-> ToString(t)]
\* CoreIdToken as Display: the serialization it was parsed from
CoreIdToken_to_string(id_token) == <<Jwt[id_token]>>
\* the id token each serialization stands for
IdTokenOfJwt ==
    [j \in {Jwt[t] : t \in BearerIdTokens} |-> CHOOSE t \in BearerIdTokens : Jwt[t] = j]
\* CoreIdToken::from_str: the text must be the serialization of an id token
CoreIdToken_from_str(text) ==
    IF Len(text) = 1 /\ text[1] \in DOMAIN IdTokenOfJwt
    THEN Ok(IdTokenOfJwt[text[1]])
    ELSE Err("invalid JWT")

\* the strings from_bearer is applied to: ":", another character and one
\* serialized id token, in every order
InputIdToken == [sig |-> TRUE, nonce |-> <<"a">>, at_hash |-> None]
InputChars == Chars \cup {Jwt[InputIdToken]}
BearerInputs == UNION {[1 .. n -> InputChars] : n \in 0 .. MaxBearer}

(***************************************************************************)
(* src/oidc.rs: the token bundle and the provider client.                  *)
(***************************************************************************)
\* str::split(':'): the parts between the colons, one more than there are colons
RECURSIVE split(_)
split(tok) ==
    IF \A i \in 1 .. Len(tok) : tok[i] # ":" THEN <<tok>>
    ELSE LET k == CHOOSE i \in 1 .. Len(tok) :
                      tok[i] = ":" /\ \A j \in 1 .. (i - 1) : tok[j] # ":"
         IN  <<SubSeq(tok, 1, k - 1)>> \o split(SubSeq(tok, k + 1, Len(tok)))

\* the compact bearer form of a bundle: id_token:access_token[:refresh_token]:nonce
to_bearer(token) ==
    CoreIdToken_to_string(token.id_token) \o <<":">> \o token.access_token
        \o (IF token.refresh_token = None THEN <<>>
            ELSE <<":">> \o Unwrap(token.refresh_token))
        \o <<":">> \o token.nonce

\* faulty variant of from_bearer: of four parts the third is taken as the nonce
from_bearer_third_is_nonce(tok) ==
    LET parts == split(tok) IN
    IF Len(parts) \notin {3, 4} THEN None
    ELSE IF ~CoreIdToken_from_str(parts[1]).ok THEN None
    ELSE Some([id_token |-> Unwrap(CoreIdToken_from_str(parts[1]).val),
               access_token |-> parts[2],
               refresh_token |-> IF Len(parts) = 4 THEN Some(parts[4]) ELSE None,
               nonce |-> parts[3]])

\* OidcToken::from_bearer
from_bearer(tok) ==
    LET parts == split(tok) IN
    IF Len(parts) = 3
    THEN IF ~CoreIdToken_from_str(parts[1]).ok THEN None
         ELSE Some([id_token |-> Unwrap(CoreIdToken_from_str(parts[1]).val),
                    access_token |-> parts[2],
                    refresh_token |-> None,
                    nonce |-> parts[3]])
    ELSE IF Len(parts) = 4
    THEN IF ~CoreIdToken_from_str(parts[1]).ok THEN None
         ELSE Some([id_token |-> Unwrap(CoreIdToken_from_str(parts[1]).val),
                    access_token |-> parts[2],
                    refresh_token |-> Some(parts[3]),
                    nonce |-> parts[4]])
    ELSE None

\* CoreIdToken::claims(&verifier, &nonce) of the openidconnect library: the
\* verifier's checks first, then the nonce claim against the expected nonce
id_token_claims(id_token, nonce) ==
    IF ~id_token.sig THEN Err("signature")
    ELSE IF id_token.nonce # nonce THEN Err("nonce")
    ELSE Ok([nonce |-> id_token.nonce, at_hash |-> id_token.at_hash])

\* OidcToken::from_token_response
from_token_response(resp, nonce) ==
    IF resp.id_token = None THEN Err("Server did not provide ID token!")
    ELSE Ok([id_token |-> Unwrap(resp.id_token),
             access_token |-> resp.access_token,
             refresh_token |-> resp.refresh_token,
             nonce |-> nonce])

\* faulty variant of OidcToken::refresh: the nonce is taken from the new id token
OidcToken_refresh_new_nonce(self, resp) ==
    IF resp.id_token = None THEN None
    ELSE Some([id_token |-> Unwrap(resp.id_token),
               access_token |-> resp.access_token,
               refresh_token |-> resp.refresh_token,
               nonce |-> IF Unwrap(resp.id_token).nonce \in Rand
                         THEN Unwrap(resp.id_token).nonce ELSE self.nonce])

\* faulty variant of OidcToken::refresh: a response without refresh token
\* leaves the old one in the bundle
OidcToken_refresh_carry_over(self, resp) ==
    IF resp.id_token = None THEN None
    ELSE Some([id_token |-> Unwrap(resp.id_token),
               access_token |-> resp.access_token,
               refresh_token |-> IF resp.refresh_token = None THEN self.refresh_token
                                 ELSE resp.refresh_token,
               nonce |-> self.nonce])

\* OidcToken::refresh: None when the response carries no id token
OidcToken_refresh(self, resp) ==
    IF resp.id_token = None THEN None
    ELSE Some([id_token |-> Unwrap(resp.id_token),
               access_token |-> resp.access_token,
               refresh_token |-> resp.refresh_token,
               nonce |-> self.nonce])

\* faulty variant of validate_token: the access-token hash is not compared
validate_token_no_hash(token) == id_token_claims(token.id_token, token.nonce)

\* IdentityProvider::validate_token
validate_token(token) ==
    LET claims == id_token_claims(token.id_token, token.nonce) IN
    IF ~claims.ok THEN claims
    ELSE IF /\ IsSome(Unwrap(claims.val).at_hash)
            /\ AccessTokenHash(token.access_token) # Unwrap(Unwrap(claims.val).at_hash)
         THEN Err("Invalid access token")
    ELSE claims

\* faulty variant of token_oidc: the exchanged bundle is returned unvalidated
token_oidc_unvalidated(tr, verifier, nonce) ==
    IF ~tr.ok THEN [res |-> Err(tr.err), net |-> 1, sent |-> verifier]
    ELSE [res |-> from_token_response(Unwrap(tr.val), nonce), net |-> 1, sent |-> verifier]

\* IdentityProvider::token_oidc; tr is what the token endpoint answers to the
\* exchange of the code with the verifier.  net counts the requests sent to the
\* provider, sent is the verifier that went with the request.
token_oidc(tr, verifier, nonce) ==
    IF ~tr.ok THEN [res |-> Err(tr.err), net |-> 1, sent |-> verifier]
    ELSE LET oidc_token == from_token_response(Unwrap(tr.val), nonce) IN
         IF ~oidc_token.ok THEN [res |-> oidc_token, net |-> 1, sent |-> verifier]
         ELSE LET claims == validate_token(Unwrap(oidc_token.val)) IN
              IF ~claims.ok THEN [res |-> Err(claims.err), net |-> 1, sent |-> verifier]
              ELSE [res |-> oidc_token, net |-> 1, sent |-> verifier]

\* faulty variant of refresh: the request is sent before the bundle is looked at
refresh_request_first(token, tr) ==
    IF ~tr.ok THEN [res |-> Err(tr.err), net |-> 1]
    ELSE IF token.refresh_token = None THEN [res |-> Err("No refresh token"), net |-> 1]
    ELSE LET refreshed == OidcToken_refresh(token, Unwrap(tr.val)) IN
         IF refreshed = None THEN [res |-> Err("Missing token"), net |-> 1]
         ELSE [res |-> Ok(Unwrap(refreshed)), net |-> 1]

\* faulty variant of refresh: a response without id token yields the old bundle
refresh_keep_old(token, tr) ==
    IF token.refresh_token = None THEN [res |-> Err("No refresh token"), net |-> 0]
    ELSE IF ~tr.ok THEN [res |-> Err(tr.err), net |-> 1]
    ELSE LET refreshed == OidcToken_refresh(token, Unwrap(tr.val)) IN
         IF refreshed = None THEN [res |-> Ok(token), net |-> 1]
         ELSE [res |-> Ok(Unwrap(refreshed)), net |-> 1]

\* IdentityProvider::refresh; tr is what the token endpoint answers if asked
refresh(token, tr) ==
    IF token.refresh_token = None THEN [res |-> Err("No refresh token"), net |-> 0]
    ELSE IF ~tr.ok THEN [res |-> Err(tr.err), net |-> 1]
    ELSE LET refreshed == OidcToken_refresh(token, Unwrap(tr.val)) IN
         IF refreshed = None THEN [res |-> Err("Missing token"), net |-> 1]
         ELSE [res |-> Ok(Unwrap(refreshed)), net |-> 1]

(***************************************************************************)
(* URLs and replies.  A URL is the sequence of its lexical parts, so that  *)
(* the parse of http::Uri can be computed on it.                           *)
(***************************************************************************)
\* the literal "auth/login" of auth_handler
LoginPath == <<"auth", "/", "login">>
\* the authorization URL built by login_oidc and the end-session URL of logout_oidc
AuthUrl == <<"https", "://", "idp", "/", "authorize">>
LogoutUrl == <<"https", "://", "idp", "/", "logout">>

\* http::Uri::try_from: a leading "/" is a path, "scheme://" an absolute URI;
\* without a scheme the whole input must be an authority (no "/" inside)
Uri_try_from(url) ==
    IF url = <<>> THEN Err("empty string")
    ELSE IF url[1] = "/" THEN Ok(url)
    ELSE IF Len(url) >= 2 /\ url[2] = "://" THEN Ok(url)
    ELSE IF \E i \in 2 .. Len(url) : url[i] = "/" THEN Err("invalid format")
    ELSE Ok(url)

\* the query `origin` of a login request, percent-encoded
Origins == {<<"%2F", "home">>, <<"%FF">>}
\* urlencoding::decode: percent escapes are replaced; the result must be UTF-8
DecodePart(part) == IF part = "%2F" THEN "/" ELSE part
decode(uri) ==
    IF \E i \in 1 .. Len(uri) : uri[i] = "%FF" THEN Err("invalid utf-8")
    ELSE Ok([i \in 1 .. Len(uri) |-> DecodePart(uri[i])])

NoSetCookie == None
\* "access_token=; Max-Age=0; Path=/; HttpOnly; Secure"
ClearAuthCookie ==
    Some([value |-> None, max_age |-> 0, path |-> "/", http_only |-> TRUE,
          same_site |-> "", secure |-> TRUE])
\* the no-cache headers put on redirects
NoCacheHeaders == {<<"Cache-Control", "no-store, must-revalidate">>, <<"Expires", "0">>}

NoReply ==
    [kind |-> "none", location |-> <<>>, reject |-> "", body |-> <<>>,
     set_cookie |-> NoSetCookie, no_cache |-> {}, status |-> 200, detail |-> ""]
RejectReply(reason) == [NoReply EXCEPT !.kind = "reject", !.reject = reason]
\* a rejection that carries a text: TokenTransferFailed { msg }, BadRequest { reason }, ..
Rejection(reason, detail) == [RejectReply(reason) EXCEPT !.detail = detail]
\* warp::reply::html of the meta-refresh page that sends the browser to target
HtmlReply(target) == [NoReply EXCEPT !.kind = "html", !.body = target]

\* faulty variant of redirect: the bare warp::redirect
redirect_cached(url) ==
    IF ~Uri_try_from(url).ok THEN Err("BadRequest")
    ELSE Ok([NoReply EXCEPT !.kind = "redirect", !.status = 301, !.location = url])

\* redirect: Err(BadRequest) when the URL does not parse
redirect(url) ==
    IF ~Uri_try_from(url).ok THEN Err("BadRequest")
    ELSE Ok([NoReply EXCEPT !.kind = "redirect", !.status = 301, !.location = url,
                            !.no_cache = NoCacheHeaders])

(***************************************************************************)
(* The session (async_session::Session behind warp_sessions): named values *)
(* kept as JSON text, a data_changed flag and a destroy flag.              *)
(***************************************************************************)
Keys == {"csrf_token", "pkce_verifier", "nonce", "redirect_uri", "token", "redirect_path"}
FlowKeys == {"csrf_token", "pkce_verifier", "nonce", "redirect_uri"}
EmptyData == [k \in Keys |-> None]

\* serde_json text of a value of Rust type ty
Json(ty, v) == [ty |-> ty, v |-> v]
\* serde_json::from_str::<ty>
from_str(ty, text) == IF text.ty = ty THEN Ok(text.v) ELSE Err("cookie: invalid type")

NewSession(data) == [data |-> data, changed |-> FALSE, destroyed |-> FALSE]
\* Session::insert: data_changed is raised when the stored text differs
insert(session, key, ty, v) ==
    [session EXCEPT !.data[key] = Some(Json(ty, v)),
                    !.changed = session.changed \/ session.data[key] # Some(Json(ty, v))]
\* Session::get::<ty>: None when the key is absent or its text is not a ty
get(session, key, ty) ==
    IF session.data[key] = None THEN None
    ELSE IF Unwrap(session.data[key]).ty # ty THEN None
    ELSE Some(Unwrap(session.data[key]).v)
get_raw(session, key) == session.data[key]
destroy(session) == [session EXCEPT !.destroyed = TRUE]

(***************************************************************************)
(* src/api/warp/sessions.rs: the handlers.  Each yields its reply and the  *)
(* session it hands on; a reply of kind "reject" is Err(Rejection), which  *)
(* ends the filter chain before the session is written back.               *)
(***************************************************************************)
Out(reply, session) == [reply |-> reply, session |-> session, exch |-> None]
\* `redirect(url)?` followed by Ok((reply, session))
RedirectOut(url, session) ==
    IF redirect(url).ok THEN Out(Unwrap(redirect(url).val), session)
    ELSE Out(Rejection(redirect(url).err, "Invalid URL"), session)

\* faulty variant of login_handler: a nonce already in the session is kept
login_handler_keep_nonce(origin, session, rnd) ==
    LET s1 == insert(session, "csrf_token", "String", rnd)
        s2 == insert(s1, "pkce_verifier", "String", rnd)
        s3 == IF session.data["nonce"] = None THEN insert(s2, "nonce", "String", rnd) ELSE s2
        s4 == IF IsSome(origin)
              THEN insert(s3, "redirect_uri", "String", Unwrap(origin))
              ELSE s3
    IN  RedirectOut(AuthUrl, s4)

\* faulty variant of login_handler: a verifier already in the session is kept
login_handler_keep_verifier(origin, session, rnd) ==
    LET s1 == insert(session, "csrf_token", "String", rnd)
        s2 == IF session.data["pkce_verifier"] = None
              THEN insert(s1, "pkce_verifier", "String", rnd) ELSE s1
        s3 == insert(s2, "nonce", "String", rnd)
        s4 == IF IsSome(origin)
              THEN insert(s3, "redirect_uri", "String", Unwrap(origin))
              ELSE s3
    IN  RedirectOut(AuthUrl, s4)

\* login_handler; rnd is the csrf token, verifier and nonce drawn by login_oidc
login_handler(origin, session, rnd) ==
    LET s1 == insert(session, "csrf_token", "String", rnd)
        s2 == insert(s1, "pkce_verifier", "String", rnd)
        s3 == insert(s2, "nonce", "String", rnd)
        s4 == IF IsSome(origin)
              THEN insert(s3, "redirect_uri", "String", Unwrap(origin))
              ELSE s3
    IN  RedirectOut(AuthUrl, s4)

\* faulty variant of the comparison: every state is taken to match
csrf_never_differs(state, csrf_token) == FALSE

\* the comparison `state != csrf_token` of auth_handler
csrf_differs(state, csrf_token) == state # csrf_token

\* faulty variant of auth_handler: a failed exchange sends the browser back to
\* the provider instead of being rejected
auth_handler_retry_on_failure(state, session, tr) ==
    LET csrf_token == get(session, "csrf_token", "String")
        verifier == get(session, "pkce_verifier", "String")
        nonce == get(session, "nonce", "String")
        stored_uri == get(session, "redirect_uri", "String")
        redirect_uri ==
            IF stored_uri = None THEN <<"/">>
            ELSE IF decode(Unwrap(stored_uri)).ok THEN Unwrap(decode(Unwrap(stored_uri)).val)
            ELSE <<"/">>
    IN  IF csrf_token = None THEN RedirectOut(LoginPath, session)
        ELSE IF verifier = None THEN RedirectOut(LoginPath, session)
        ELSE IF nonce = None THEN RedirectOut(LoginPath, session)
        ELSE IF csrf_differs(state, Unwrap(csrf_token)) THEN RedirectOut(LoginPath, session)
        ELSE LET token == token_oidc(tr, Unwrap(verifier), Unwrap(nonce))
                 sent == Some(<<token.sent, Unwrap(nonce)>>)
             IN  IF ~token.res.ok
                 THEN [reply |-> RedirectOut(AuthUrl, session).reply,
                       session |-> session, exch |-> sent]
                 ELSE [reply |-> HtmlReply(redirect_uri),
                       session |-> insert(session, "token", "OidcToken", Unwrap(token.res.val)),
                       exch |-> sent]

\* faulty variant of auth_handler: the stored redirect_uri is used as it is,
\* without URL-decoding
auth_handler_raw_redirect(state, session, tr) ==
    LET csrf_token == get(session, "csrf_token", "String")
        verifier == get(session, "pkce_verifier", "String")
        nonce == get(session, "nonce", "String")
        stored_uri == get(session, "redirect_uri", "String")
        redirect_uri == IF stored_uri = None THEN <<"/">> ELSE Unwrap(stored_uri)
    IN  IF csrf_token = None THEN RedirectOut(LoginPath, session)
        ELSE IF verifier = None THEN RedirectOut(LoginPath, session)
        ELSE IF nonce = None THEN RedirectOut(LoginPath, session)
        ELSE IF csrf_differs(state, Unwrap(csrf_token)) THEN RedirectOut(LoginPath, session)
        ELSE LET token == token_oidc(tr, Unwrap(verifier), Unwrap(nonce))
                 sent == Some(<<token.sent, Unwrap(nonce)>>)
             IN  IF ~token.res.ok
                 THEN [reply |-> Rejection("TokenTransferFailed", token.res.err),
                       session |-> session, exch |-> sent]
                 ELSE [reply |-> HtmlReply(redirect_uri),
                       session |-> insert(session, "token", "OidcToken", Unwrap(token.res.val)),
                       exch |-> sent]

\* auth_handler; tr is the token endpoint's answer to the code of the query
auth_handler(state, session, tr) ==
    LET csrf_token == get(session, "csrf_token", "String")
        verifier == get(session, "pkce_verifier", "String")
        nonce == get(session, "nonce", "String")
        stored_uri == get(session, "redirect_uri", "String")
        redirect_uri ==
            IF stored_uri = None THEN <<"/">>
            ELSE IF decode(Unwrap(stored_uri)).ok THEN Unwrap(decode(Unwrap(stored_uri)).val)
            ELSE <<"/">>
    IN  IF csrf_token = None THEN RedirectOut(LoginPath, session)
        ELSE IF verifier = None THEN RedirectOut(LoginPath, session)
        ELSE IF nonce = None THEN RedirectOut(LoginPath, session)
        ELSE IF csrf_differs(state, Unwrap(csrf_token)) THEN RedirectOut(LoginPath, session)
        ELSE LET token == token_oidc(tr, Unwrap(verifier), Unwrap(nonce))
                 sent == Some(<<token.sent, Unwrap(nonce)>>)
             IN  IF ~token.res.ok
                 THEN [reply |-> Rejection("TokenTransferFailed", token.res.err),
                       session |-> session, exch |-> sent]
                 ELSE [reply |-> HtmlReply(redirect_uri),
                       session |-> insert(session, "token", "OidcToken", Unwrap(token.res.val)),
                       exch |-> sent]

\* parse_auth_cookie
parse_auth_cookie(cookie_str) ==
    IF from_str("OidcToken", cookie_str).ok THEN from_str("OidcToken", cookie_str)
    ELSE Err("InvalidSessionToken")

\* logout_handler: the redirect to the provider's end-session URL
logout_handler(session, token) ==
    IF ~parse_auth_cookie(token).ok
    THEN Out(Rejection(parse_auth_cookie(token).err, "cookie"), session)
    ELSE Out([NoReply EXCEPT !.kind = "redirect", !.status = 301, !.location = LogoutUrl,
                             !.no_cache = NoCacheHeaders, !.set_cookie = ClearAuthCookie],
             session)

\* the closure of provider_routes ("oauth" / "logout")
provider_logout(session) ==
    Out([NoReply EXCEPT !.kind = "empty", !.set_cookie = ClearAuthCookie], destroy(session))

\* warp_sessions::reply::with_session (WithSession::new): a destroyed session is
\* removed from the store, a changed one is stored whole, else nothing is written
with_session_reply(reply, session, stored) ==
    [reply |-> reply,
     store |-> IF session.destroyed THEN EmptyData
               ELSE IF session.changed THEN session.data
               ELSE stored]

\* faulty variant of store_auth_cookie: the session is stored, no cookie is set
store_auth_cookie_session_only(reply, session, stored) ==
    with_session_reply(reply, session, stored)

\* store_auth_cookie
store_auth_cookie(reply, session, stored) ==
    IF ~session.changed THEN with_session_reply(reply, session, stored)
    ELSE IF get_raw(session, "token") = None THEN with_session_reply(reply, session, stored)
    ELSE with_session_reply(
             [reply EXCEPT !.set_cookie =
                 Some([value |-> get_raw(session, "token"), max_age |-> -1, path |-> "/",
                       http_only |-> TRUE, same_site |-> "Lax", secure |-> TRUE])],
             session, stored)

(***************************************************************************)
(* The guard of the protected routes: authenticate, followed by the        *)
(* route's handler and store_auth_cookie (src/api/users.rs).               *)
(***************************************************************************)
\* the Authorization header: its leading scheme and what follows it
BearerHeader(content) == [scheme |-> "Bearer ", content |-> content]
\* tok.starts_with("Bearer ")
starts_with_Bearer(tok) == tok.scheme = "Bearer "
\* tok.trim_start_matches("Bearer ")
trim_start_matches_Bearer(tok) == tok.content

\* the path of the protected route (warp::path::full)
Paths == {<<"/", "user">>}

\* the AuthenticatedUser made from the claims of a validated id token
UserOfClaims(claims) == [id |-> "sub", claims |-> Some(claims)]
\* faulty variant of FakeUser: the local user counts as verified
FakeUser_verified(user_id) == [id |-> user_id, claims |-> None, email_verified |-> TRUE]

\* the AuthenticatedUser of the mode without provider: FAKE_NAME, FAKE_EMAIL
FakeUser(user_id) == [id |-> user_id, claims |-> None, email_verified |-> FALSE]

\* faulty variant of validate_session: a bundle that fails validation is
\* refreshed and the refreshed bundle validated in its place
validate_session_refreshing(token, tr, renewed) ==
    IF validate_token(token).ok
    THEN [res |-> Ok(UserOfClaims(Unwrap(validate_token(token).val))),
          token |-> None, net |-> 0]
    ELSE LET refreshed == refresh(token, tr) IN
         IF ~refreshed.res.ok THEN [res |-> Err(refreshed.res.err), token |-> None,
                                    net |-> refreshed.net]
         ELSE IF ~validate_token(Unwrap(refreshed.res.val)).ok
              THEN [res |-> Err(validate_token(Unwrap(refreshed.res.val)).err),
                    token |-> None, net |-> refreshed.net]
         ELSE [res |-> Ok(UserOfClaims(Unwrap(validate_token(Unwrap(refreshed.res.val)).val))),
               token |-> refreshed.res.val, net |-> refreshed.net]

\* faulty variant of validate_session: no bundle is accepted
validate_session_rejecting(token, tr, renewed) ==
    [res |-> Err("signature"), token |-> None, net |-> 0]

\* AuthenticatedUser::validate_session(&idp, token): validate_token decides; on
\* success the user is made from the claims, on failure the error is handed
\* on and the provider is not asked for a refresh.  The second part of its
\* result is an Option<OidcToken>, a replacement for the bundle presented:
\* `renewed` is what comes back there on success.  tr is what the token
\* endpoint would answer if it were asked; net counts the requests sent to it.
validate_session(token, tr, renewed) ==
    IF validate_token(token).ok
    THEN [res |-> Ok(UserOfClaims(Unwrap(validate_token(token).val))),
          token |-> renewed, net |-> 0]
    ELSE [res |-> Err(validate_token(token).err), token |-> None, net |-> 0]

\* the outcome of the guard: the user or the rejection, and the session
Authenticated(auth_user, session, net) ==
    [user |-> Some(auth_user), reject |-> "", detail |-> "", session |-> session, net |-> net]
GuardRejected(reason, session, net) ==
    [user |-> None, reject |-> reason, detail |-> "", session |-> session, net |-> net]

\* faulty variant of reset_token: the replacement is dropped
reset_token_never(session, token) == session

\* authenticate, "Reset token": a replacement bundle is written into the session
reset_token(session, token) ==
    IF IsSome(token) THEN insert(session, "token", "OidcToken", Unwrap(token)) ELSE session

\* faulty variant of authenticate: a request without credential is let through
authenticate_anonymous(provider, token, bearer, path, session, tr, renewed) ==
    Authenticated(FakeUser("anonymous"), session, 0)

\* faulty variant of authenticate: the cookie is preferred to the bearer header
authenticate_cookie_first(provider, token, bearer, path, session, tr, renewed) ==
    IF provider
    THEN LET decoded ==
                 IF IsSome(token)
                 THEN IF parse_auth_cookie(Unwrap(token)).ok
                      THEN Ok(parse_auth_cookie(Unwrap(token)).val)
                      ELSE Err("InvalidSessionToken")
                 ELSE IF IsSome(bearer) /\ starts_with_Bearer(Unwrap(bearer))
                 THEN Ok(from_bearer(trim_start_matches_Bearer(Unwrap(bearer))))
                 ELSE Ok(None)
         IN  IF ~decoded.ok
             THEN [GuardRejected(decoded.err, session, 0) EXCEPT !.detail = "cookie"]
             ELSE IF Unwrap(decoded.val) = None
             THEN GuardRejected("NoSessionToken",
                                insert(session, "redirect_path", "String", path), 0)
             ELSE LET v == validate_session(Unwrap(Unwrap(decoded.val)), tr, renewed) IN
                  IF ~v.res.ok
                  THEN [GuardRejected("AnyhowError", session, v.net) EXCEPT !.detail = v.res.err]
                  ELSE Authenticated(Unwrap(v.res.val), session, v.net)
    ELSE GuardRejected("NoSessionToken", session, 0)

\* the closure of authenticate; provider tells whether an IdentityProvider is
\* configured, token is the AUTH_COOKIE, bearer the Authorization header
authenticate(provider, token, bearer, path, session, tr, renewed) ==
    IF provider
    THEN LET decoded ==
                 IF IsSome(bearer) /\ starts_with_Bearer(Unwrap(bearer))
                 THEN Ok(from_bearer(trim_start_matches_Bearer(Unwrap(bearer))))
                 ELSE IF IsSome(token)
                 THEN IF parse_auth_cookie(Unwrap(token)).ok
                      THEN Ok(parse_auth_cookie(Unwrap(token)).val)
                      ELSE Err("InvalidSessionToken")
                 ELSE Ok(None)
         IN  IF ~decoded.ok
             THEN [GuardRejected(decoded.err, session, 0) EXCEPT !.detail = "cookie"]
             ELSE IF Unwrap(decoded.val) = None
             THEN GuardRejected("NoSessionToken",
                                insert(session, "redirect_path", "String", path), 0)
             ELSE LET v == validate_session(Unwrap(Unwrap(decoded.val)), tr, renewed) IN
                  IF ~v.res.ok
                  THEN [GuardRejected("AnyhowError", session, v.net) EXCEPT !.detail = v.res.err]
                  ELSE Authenticated(Unwrap(v.res.val), reset_token(session, v.token), v.net)
    ELSE IF IsSome(token)
    THEN IF from_str("NoAuthToken", Unwrap(token)).ok
         THEN Authenticated(
                  FakeUser(Unwrap(from_str("NoAuthToken", Unwrap(token)).val).user_id),
                  session, 0)
         ELSE [GuardRejected("InvalidSessionToken", session, 0) EXCEPT !.detail = "cookie"]
    ELSE GuardRejected("NoSessionToken", session, 0)

\* the texts that Uuid::parse_str accepts
Uuids == {"uid1"}
\* no_auth_form_handler; user_id is the field of the posted form
no_auth_form_handler(session, user_id) ==
    IF user_id \notin Uuids THEN Out(RejectReply("InvalidCredentials"), session)
    ELSE Out(HtmlReply(<<"/">>),
             insert(session, "token", "NoAuthToken", [user_id |-> user_id]))

\* get_user_handler behind the guard: a JSON reply, the session handed on
get_user_handler(auth_user, session) == Out([NoReply EXCEPT !.kind = "json"], session)

(***************************************************************************)
(* The recover handlers: a rejection becomes the response the client sees. *)
(* A response body is the sequence of the texts in it: <<"Unauthorized">>  *)
(* for the JSON string, <<"error", msg>> for the object {"error": msg}.    *)
(***************************************************************************)
\* warp::reply::with_status(warp::reply::json(body), status)
with_status(body, status) == [NoReply EXCEPT !.kind = "json", !.status = status, !.body = body]
\* the literal "/auth/login" of the recover handlers
AuthPath == <<"/", "auth", "/", "login">>
\* warp::redirect(auth_path) with the no-cache headers added
LoginRedirect ==
    [NoReply EXCEPT !.kind = "redirect", !.status = 301, !.location = AuthPath,
                    !.no_cache = NoCacheHeaders]

\* api::warp::handle_rejection; err is the rejection: its reason and the text in it
handle_rejection(err) ==
    CASE err.reject = "NotFoundRoute" ->
             [NoReply EXCEPT !.kind = "text", !.status = 404, !.body = <<"NOT_FOUND">>]
      [] err.reject = "NoSessionToken" -> LoginRedirect
      [] err.reject = "InvalidSessionToken" -> with_status(<<"Unauthorized">>, 401)
      [] err.reject = "OidcError" -> with_status(<<"OIDC Configuration Error">>, 500)
      [] err.reject = "CsrfMismatch" -> with_status(<<"OIDC Configuration Error">>, 403)
      [] err.reject = "TokenTransferFailed" ->
             with_status(<<"Error communicating with identity provider">>, 502)
      [] err.reject = "InvalidCredentials" ->
             with_status(<<"Invalid form of authorization">>, 403)
      [] err.reject = "AnyhowError" -> with_status(<<"error", err.detail>>, 500)
      [] err.reject = "Anyhow" -> with_status(<<"error", err.detail>>, 500)
      [] err.reject = "BadRequest" -> with_status(<<"rejected", err.detail>>, 400)
      [] err.reject = "Conflict" -> with_status(<<"conflict", err.detail>>, 409)
      [] err.reject = "DatabaseError" -> with_status(<<"rejected", err.detail>>, 500)
      [] err.reject = "Forbidden" -> with_status(<<"rejected", "forbidden">>, 403)
      [] err.reject = "NotFound" -> with_status(<<"missing", err.detail>>, 404)
      [] err.reject = "MissingEnvKey" ->
             with_status(<<"error", "Server misconfiguration error">>, 500)
      [] err.reject = "Session" ->
             with_status(<<"error", "Server misconfiguration error">>, 500)
      [] OTHER -> with_status(<<"Unhandled error">>, 500)

\* api::handle_rejection, the recover handler of the module api
api_handle_rejection(err) ==
    CASE err.reject = "NotFoundRoute" ->
             [NoReply EXCEPT !.kind = "text", !.status = 404, !.body = <<"NOT_FOUND">>]
      [] err.reject = "NoSessionToken" -> LoginRedirect
      [] err.reject = "ConflictError" ->
             with_status(<<"Conflict: Resource already exists">>, 409)
      [] err.reject = "ParseError" ->
             with_status(<<"Invalid parameter, parsing failed">>, 400)
      [] err.reject = "InvalidConfigurationError" ->
             with_status(<<"Invalid configuration provided, cannot complete request">>, 400)
      [] err.reject = "NotFoundError" ->
             with_status(<<"Not Found: Resource does not exist">>, 404)
      [] err.reject = "ForbiddenError" ->
             with_status(<<"Forbidden: Insufficient permissions">>, 403)
      [] err.reject = "InvalidSessionToken" -> with_status(<<"Unauthorized">>, 401)
      [] err.reject = "DatabaseError" -> with_status(<<"Database Error">>, 500)
      [] err.reject = "OidcError" -> with_status(<<"OIDC Configuration Error">>, 500)
      [] err.reject = "CsrfMismatch" -> with_status(<<"OIDC Configuration Error">>, 500)
      [] err.reject = "TokenTransferFailed" ->
             with_status(<<"Error communicating with identity provider">>, 500)
      [] err.reject = "MissingEnvKey" -> with_status(<<"Server configuration error">>, 500)
      [] OTHER -> with_status(<<"Unhandled error">>, 500)

(***************************************************************************)
(* State.                                                                  *)
(***************************************************************************)
VARIABLES
    idp,         \* Option<Arc<IdentityProvider>>: is a provider configured
    store,       \* MemoryStore: the stored data of the browser's session
    jar,         \* the browser's AUTH_COOKIE, None when it has none
    req,         \* the requests in flight, by slot
    nextRand,    \* number of the next login_oidc call
    exchanged,   \* (verifier, nonce) pairs already sent in a code exchange
    token,       \* SpecIdp: the bundle held by the caller
    orig_nonce,  \* SpecIdp: the nonce of the bundle before any refresh
    chain,       \* SpecIdp: successful refreshes since then
    last,        \* SpecIdp: the last provider-client call and its result
    wire,        \* SpecBearer: a bundle, its bearer form and what is read from it
    raised,      \* SpecReject: the rejection handed to the recover handler
    client,      \* SpecReject, SpecOne: the response the client gets, and from where
    login_origin \* SpecOne: the query `origin` of the last login start, if there was one

flowVars == <<idp, store, jar, req, nextRand, exchanged>>
idpVars == <<token, orig_nonce, chain, last>>
rejectVars == <<raised, client>>
vars ==
    <<idp, store, jar, req, nextRand, exchanged, token, orig_nonce, chain, last, wire,
      raised, client, login_origin>>

Req == 1 .. MaxReq
\* a cookie value that is no JSON of a token
Junk == Json("junk", <<>>)

IdleReq ==
    [pc |-> "idle", route |-> "none", session |-> NewSession(EmptyData),
     reply |-> NoReply, state |-> 0, origin |-> None, cookie |-> None, exch |-> None,
     answer |-> None, bearer |-> None, path |-> <<>>, user |-> None, net |-> 0,
     renewed |-> None]

NoCall == [op |-> "none", input |-> None, tr |-> None, res |-> Err(""), net |-> 0]
Call(op, input, tr, out) ==
    [op |-> op, input |-> input, tr |-> tr, res |-> out.res, net |-> out.net]
SomeToken == CHOOSE t \in OidcTokens : TRUE
NoWire == [stage |-> "none", bundle |-> None, text |-> <<>>, decoded |-> None]
NoClient == [via |-> "none", response |-> NoReply]
RejectIdle == raised = NoReply /\ client = NoClient /\ login_origin = None

FlowInit ==
    /\ idp \in BOOLEAN
    /\ store = EmptyData
    /\ jar = None
    /\ req = [r \in Req |-> IdleReq]
    /\ nextRand = 1
    /\ exchanged = {}

IdpIdle ==
    /\ token = SomeToken
    /\ orig_nonce = SomeToken.nonce
    /\ chain = 0
    /\ last = NoCall

Init == FlowInit /\ IdpIdle /\ wire = NoWire /\ RejectIdle

(***************************************************************************)
(* A request: the session is loaded at entry (request::with_session) and   *)
(* the handler runs on that copy, touching nothing else; later the reply   *)
(* is finalised and the copy written back.                                 *)
(***************************************************************************)
\* warp_sessions::request::with_session: the copy of the stored session that the
\* request works on
with_session(stored) == NewSession(stored)

Handled(route, out) ==
    [IdleReq EXCEPT !.pc = "reply", !.route = route, !.reply = out.reply,
                    !.session = out.session, !.exch = out.exch]

\* GET /auth/login
Login(r) ==
    /\ req[r].pc = "idle" /\ idp /\ nextRand <= MaxLogins
    /\ \E origin \in {None} \cup {Some(o) : o \in Origins} :
          req' = [req EXCEPT ![r] =
                     [Handled("login", login_handler(origin, with_session(store), nextRand))
                          EXCEPT !.origin = origin]]
    /\ nextRand' = nextRand + 1
    /\ UNCHANGED <<idp, store, jar, exchanged>>

\* GET /auth?code=..&state=..
Callback(r) ==
    /\ req[r].pc = "idle" /\ idp
    /\ \E state \in States, tr \in FlowResults :
          LET out == auth_handler(state, with_session(store), tr) IN
          /\ req' = [req EXCEPT ![r] =
                        [Handled("auth", out) EXCEPT
                            !.state = state,
                            !.answer = IF IsSome(out.exch) THEN Some(tr) ELSE None]]
          /\ exchanged' = IF IsSome(out.exch) THEN exchanged \cup {Unwrap(out.exch)}
                          ELSE exchanged
    /\ UNCHANGED <<idp, store, jar, nextRand>>

\* GET /auth/logout: the route requires the cookie (warp::cookie::cookie); the
\* browser sends the one it holds, any other client whatever it likes
Logout(r) ==
    /\ req[r].pc = "idle" /\ idp
    /\ \E cookie \in {jar, Some(Junk)} :
          /\ IsSome(cookie)
          /\ req' = [req EXCEPT ![r] =
                        [Handled("logout", logout_handler(with_session(store), Unwrap(cookie)))
                             EXCEPT !.cookie = cookie]]
    /\ UNCHANGED <<idp, store, jar, nextRand, exchanged>>

\* /oauth/logout
ProviderLogout(r) ==
    /\ req[r].pc = "idle"
    /\ req' = [req EXCEPT ![r] = Handled("oauth_logout", provider_logout(with_session(store)))]
    /\ UNCHANGED <<idp, store, jar, nextRand, exchanged>>

\* the credentials a client sends in the Authorization header: a bundle that
\* validates, one whose id token fails the verifier, both in bearer form, and a
\* string of one part
GoodBundle ==
    [id_token |-> [sig |-> TRUE, nonce |-> <<"a">>, at_hash |-> None],
     access_token |-> <<"a">>, refresh_token |-> None, nonce |-> <<"a">>]
BadBundle ==
    [id_token |-> [sig |-> FALSE, nonce |-> <<"a">>, at_hash |-> None],
     access_token |-> <<"a">>, refresh_token |-> Some(<<"a">>), nonce |-> <<"a">>]
Headers ==
    {BearerHeader(to_bearer(GoodBundle)), BearerHeader(to_bearer(BadBundle)),
     BearerHeader(<<"a">>)}
\* the cookie of the mode without provider: {"user_id": ..}
LocalCookie == Json("NoAuthToken", [user_id |-> "uid1"])
\* the token endpoint's answers to a refresh request made for a guarded request
GuardAnswers ==
    {Err("transport"),
     Ok([id_token |-> Some(GoodBundle.id_token), access_token |-> <<"a">>,
         refresh_token |-> None])}

\* a replacement bundle that validate_session hands back
RenewedBundle ==
    [id_token |-> [sig |-> TRUE, nonce |-> 1, at_hash |-> Some(AccessTokenHash("at2"))],
     access_token |-> "at2", refresh_token |-> Some("rt1"), nonce |-> 1]

\* a request to a protected route (GET /user/..): authenticate, then the
\* handler; renewals are the replacements validate_session may hand back
GuardWith(r, renewals) ==
    /\ req[r].pc = "idle"
    /\ \E cookie \in {None, Some(Junk), IF idp THEN jar ELSE Some(LocalCookie)},
          bearer \in {None} \cup {Some(h) : h \in Headers},
          path \in Paths, tr \in GuardAnswers, renewed \in renewals :
          LET a == authenticate(idp, cookie, bearer, path, with_session(store), tr, renewed)
              out == IF a.user = None THEN Out(Rejection(a.reject, a.detail), a.session)
                     ELSE get_user_handler(Unwrap(a.user), a.session)
          IN  req' = [req EXCEPT ![r] =
                         [Handled("guard", out) EXCEPT
                             !.cookie = cookie, !.bearer = bearer, !.path = path,
                             !.user = a.user, !.net = a.net,
                             !.renewed = IF IsSome(a.user) /\ idp THEN renewed ELSE None]]
    /\ UNCHANGED <<idp, store, jar, nextRand, exchanged>>

\* POST /auth of the mode without provider (no_auth_routes)
NoAuthForm(r) ==
    /\ req[r].pc = "idle" /\ ~idp
    /\ \E user_id \in Uuids \cup {"nobody"} :
          req' = [req EXCEPT ![r] =
                     Handled("auth_form", no_auth_form_handler(with_session(store), user_id))]
    /\ UNCHANGED <<idp, store, jar, nextRand, exchanged>>

\* the guarded request whose validation proceeds with no token mutation
Guard(r) == GuardWith(r, {None})
\* the guarded request whose validation hands back a replacement bundle
GuardRenewed(r) == GuardWith(r, {Some(RenewedBundle)})

\* what the browser does with the Set-Cookie of a reply
SetJar(reply) ==
    IF reply.set_cookie = None THEN jar
    ELSE IF Unwrap(reply.set_cookie).max_age = 0 THEN None
    ELSE Unwrap(reply.set_cookie).value

\* the end of the route's filter chain: store_auth_cookie on the callback route
\* and the protected routes, warp_sessions::reply::with_session on the others
Finalised(r) ==
    IF req[r].route \in {"auth", "auth_form", "guard"}
    THEN store_auth_cookie(req[r].reply, req[r].session, store)
    ELSE with_session_reply(req[r].reply, req[r].session, store)

Finalise(r) ==
    /\ req[r].pc = "reply" /\ req[r].reply.kind # "reject"
    /\ store' = Finalised(r).store
    /\ jar' = SetJar(Finalised(r).reply)
    /\ req' = [req EXCEPT ![r] = IdleReq]
    /\ UNCHANGED <<idp, nextRand, exchanged>>

\* Err(Rejection): the session of the request is dropped, nothing is stored
Rejected(r) ==
    /\ req[r].pc = "reply" /\ req[r].reply.kind = "reject"
    /\ req' = [req EXCEPT ![r] = IdleReq]
    /\ UNCHANGED <<idp, store, jar, nextRand, exchanged>>

Next ==
    /\ \E r \in Req :
          \/ Login(r)
          \/ Callback(r)
          \/ Logout(r)
          \/ ProviderLogout(r)
          \/ Guard(r)
          \/ NoAuthForm(r)
          \/ Finalise(r)
          \/ Rejected(r)
    /\ UNCHANGED <<idpVars, wire, rejectVars, login_origin>>

Spec == Init /\ [][Next]_vars

(***************************************************************************)
(* SpecIdp: the provider client applied to bundles.  The caller holds a    *)
(* bundle, obtained from anywhere (a cookie, a bearer header) or from a    *)
(* code exchange, validates it, and refreshes it as long as that succeeds. *)
(***************************************************************************)
IdpInit ==
    /\ idp = TRUE
    /\ store = EmptyData
    /\ jar = None
    /\ req = [r \in Req |-> IdleReq]
    /\ nextRand = 1
    /\ exchanged = {}
    /\ token \in OidcTokens
    /\ orig_nonce = token.nonce
    /\ chain = 0
    /\ last = NoCall
    /\ wire = NoWire
    /\ RejectIdle

\* token_oidc(code, verifier, nonce)
IdpTokenOidc ==
    /\ last.op = "none"
    /\ \E tr \in TransportResults, verifier \in Rand, nonce \in Rand :
          LET out == token_oidc(tr, verifier, nonce) IN
          /\ last' = Call("token_oidc", Some(nonce), Some(tr), out)
          /\ token' = IF out.res.ok THEN Unwrap(out.res.val) ELSE token
          /\ orig_nonce' = token'.nonce
    /\ UNCHANGED chain

\* validate_token(&token)
IdpValidate ==
    /\ last.op # "validate_token"
    /\ last' = Call("validate_token", Some(token), None,
                    [res |-> validate_token(token), net |-> 0])
    /\ UNCHANGED <<token, orig_nonce, chain>>

\* refresh(token); the caller keeps its bundle when the refresh fails
IdpRefresh ==
    /\ chain < MaxRefresh
    /\ last.op = "refresh" => last.res.ok
    /\ \E tr \in TransportResults :
          LET out == refresh(token, tr) IN
          /\ last' = Call("refresh", Some(token), Some(tr), out)
          /\ token' = IF out.res.ok THEN Unwrap(out.res.val) ELSE token
          /\ chain' = IF out.res.ok THEN chain + 1 ELSE chain
    /\ UNCHANGED orig_nonce

IdpNext ==
    /\ \/ IdpTokenOidc
       \/ IdpValidate
       \/ IdpRefresh
    /\ UNCHANGED <<flowVars, wire, rejectVars, login_origin>>

SpecIdp == IdpInit /\ [][IdpNext]_vars

(***************************************************************************)
(* SpecBearer: the compact bearer form.  A run starts from a bundle, which *)
(* is written in bearer form and read back, or from any string, which is   *)
(* read.                                                                   *)
(***************************************************************************)
BearerInit ==
    /\ idp = FALSE
    /\ store = EmptyData
    /\ jar = None
    /\ req = [r \in Req |-> IdleReq]
    /\ nextRand = 1
    /\ exchanged = {}
    /\ IdpIdle
    /\ RejectIdle
    /\ \/ \E b \in BearerBundles : wire = [NoWire EXCEPT !.stage = "bundle", !.bundle = Some(b)]
       \/ \E t \in BearerInputs : wire = [NoWire EXCEPT !.stage = "text", !.text = t]

\* the bundle is written in bearer form
BearerEncode ==
    /\ wire.stage = "bundle"
    /\ wire' = [wire EXCEPT !.stage = "text", !.text = to_bearer(Unwrap(wire.bundle))]

\* OidcToken::from_bearer(text)
BearerDecode ==
    /\ wire.stage = "text"
    /\ wire' = [wire EXCEPT !.stage = "decoded", !.decoded = from_bearer(wire.text)]

BearerNext ==
    /\ \/ BearerEncode
       \/ BearerDecode
    /\ UNCHANGED <<flowVars, idpVars, rejectVars, login_origin>>

SpecBearer == BearerInit /\ [][BearerNext]_vars

(***************************************************************************)
(* SpecReject: the recover handlers applied to rejections.  A run starts   *)
(* from any rejection a route can end with, carrying any of the texts an   *)
(* error can have, and hands it to the recover handler of its module.      *)
(***************************************************************************)
\* the texts inside errors: the causes validate_token fails with, a transport
\* error, the name of an environment key
Details == {"signature", "nonce", "Invalid access token", "transport", "DATABASE_URL"}
\* AuthRejectReason, AnyhowError, RejectReason, a route that matched nothing and
\* a rejection of warp itself
WarpReasons ==
    {"NotFoundRoute", "NoSessionToken", "InvalidSessionToken", "OidcError", "CsrfMismatch",
     "TokenTransferFailed", "InvalidCredentials", "AnyhowError", "Anyhow", "BadRequest",
     "Conflict", "DatabaseError", "Forbidden", "NotFound", "MissingEnvKey", "Session",
     "MethodNotAllowed"}
\* the rejection types of the module api
ApiReasons ==
    {"NotFoundRoute", "NoSessionToken", "ConflictError", "ParseError",
     "InvalidConfigurationError", "NotFoundError", "ForbiddenError", "InvalidSessionToken",
     "DatabaseError", "OidcError", "CsrfMismatch", "TokenTransferFailed", "MissingEnvKey",
     "MethodNotAllowed"}

RejectInit ==
    /\ idp = FALSE
    /\ store = EmptyData
    /\ jar = None
    /\ req = [r \in Req |-> IdleReq]
    /\ nextRand = 1
    /\ exchanged = {}
    /\ IdpIdle
    /\ wire = NoWire
    /\ \E reason \in WarpReasons \cup ApiReasons, detail \in Details :
          raised = Rejection(reason, detail)
    /\ client = NoClient
    /\ login_origin = None

\* routes.recover(handle_rejection) of api::warp
Recover ==
    /\ client.via = "none" /\ raised.reject \in WarpReasons
    /\ client' = [via |-> "handle_rejection", response |-> handle_rejection(raised)]
    /\ UNCHANGED raised

\* routes.recover(handle_rejection) of api
ApiRecover ==
    /\ client.via = "none" /\ raised.reject \in ApiReasons
    /\ client' = [via |-> "api_handle_rejection", response |-> api_handle_rejection(raised)]
    /\ UNCHANGED raised

RejectNext ==
    /\ \/ Recover
       \/ ApiRecover
    /\ UNCHANGED <<flowVars, idpVars, wire, login_origin>>

SpecReject == RejectInit /\ [][RejectNext]_vars

(***************************************************************************)
(* SpecOne: one client talking to the routes, one request after the other, *)
(* as a browser does that follows the login flow.  The response of each    *)
(* request is what the route replied or, for a rejection, what the recover *)
(* handler made of it (routes.recover(handle_rejection)).  Here the        *)
(* validation of a guarded request may also hand back a replacement for    *)
(* the bundle presented.                                                   *)
(***************************************************************************)
\* the response to the request that ends in this step
Response(r) ==
    IF req[r].reply.kind = "reject"
    THEN [via |-> "handle_rejection", response |-> handle_rejection(req[r].reply)]
    ELSE [via |-> req[r].route, response |-> Finalised(r).reply]

OneNext ==
    /\ \/ Login(1)
       \/ Callback(1)
       \/ Logout(1)
       \/ ProviderLogout(1)
       \/ Guard(1)
       \/ GuardRenewed(1)
       \/ NoAuthForm(1)
       \/ Finalise(1)
       \/ Rejected(1)
    /\ client' = IF req[1].pc = "reply" THEN Response(1) ELSE NoClient
    /\ login_origin' = IF req[1].pc = "idle" /\ req'[1].route = "login"
                       THEN Some(req'[1].origin)
                       ELSE login_origin
    /\ UNCHANGED <<idpVars, wire, raised>>

SpecOne == Init /\ [][OneNext]_vars

(***************************************************************************)
(* Claims about the login flow, checked under Spec.                        *)
(***************************************************************************)
\* a callback whose handler has run and whose reply is not yet finalised
CallbackReplied(r) == req[r].pc = "reply" /\ req[r].route = "auth"
\* the csrf_token the callback read from its session
StoredCsrf(r) == get(req[r].session, "csrf_token", "String")
\* the session held a csrf_token and the query's state is another value
StateDiffers(r) == IsSome(StoredCsrf(r)) /\ Unwrap(StoredCsrf(r)) # req[r].state
FlowStateIn(data) == \E k \in FlowKeys : data[k] # None

\* C1: a callback whose query state differs from the csrf_token stored in the
\* session is rejected with CsrfMismatch; it gets neither a redirect back to
\* login nor a success.
C1_MismatchIsCsrfMismatch ==
    \A r \in Req :
        (CallbackReplied(r) /\ StateDiffers(r)) => req[r].reply = RejectReply("CsrfMismatch")

\* C2: the code exchange is made by a callback only when the query state equals
\* the csrf_token of its session; a callback with another state makes no
\* exchange and writes nothing (so no token bundle) into the session.
C2_ExchangeOnlyOnMatchingState ==
    \A r \in Req :
        CallbackReplied(r) =>
            /\ IsSome(req[r].exch) => StoredCsrf(r) = Some(req[r].state)
            /\ StoredCsrf(r) # Some(req[r].state) =>
                  /\ req[r].exch = None
                  /\ ~req[r].session.changed
                  /\ req[r].reply.kind # "html"

\* C2 witness: a callback with a differing state has been handled while a token
\* bundle of an earlier login is in its session
C2_Witness ==
    \E r \in Req :
        /\ CallbackReplied(r) /\ StateDiffers(r)
        /\ req[r].session.data["token"] # None

\* C3: once a callback that read the flow state of its session completes, with
\* whatever outcome, csrf_token, pkce_verifier, nonce and redirect_uri are gone
\* from the stored session; and no callback sends a (verifier, nonce) pair to
\* the code exchange that an earlier callback already sent.
C3_FlowStateConsumed ==
    [][\A r \in Req :
          /\ (CallbackReplied(r) /\ FlowStateIn(req[r].session.data) /\ req'[r].pc = "idle")
                => ~FlowStateIn(store')
          /\ (req[r].pc = "idle" /\ req'[r].pc = "reply" /\ req'[r].route = "auth"
                /\ IsSome(req'[r].exch))
                => Unwrap(req'[r].exch) \notin exchanged]_vars

\* the csrf_token, pkce_verifier and nonce of data were drawn by one login_oidc
\* call, or none of the three is there
FromOneLogin(data) ==
    \/ data["csrf_token"] = None /\ data["pkce_verifier"] = None /\ data["nonce"] = None
    \/ \E n \in Rand :
          /\ data["csrf_token"] = Some(Json("String", n))
          /\ data["pkce_verifier"] = Some(Json("String", n))
          /\ data["nonce"] = Some(Json("String", n))
\* the state of the callback was issued by a login whose triple is not the one
\* the callback found in the session
Overwritten(r) ==
    /\ req[r].state \in 1 .. (nextRand - 1)
    /\ StateDiffers(r)

C5_LogoutClearsSession ==
    [][\A r \in Req :
          (/\ req[r].pc = "reply" /\ req[r].route \in {"logout", "oauth_logout"}
           /\ req[r].reply.kind # "reject" /\ req'[r].pc = "idle")
          => /\ ~FlowStateIn(store')
             /\ store'["token"] = None
             /\ Finalised(r).reply.set_cookie = ClearAuthCookie]_vars

(***************************************************************************)
(* Claims about the provider client, checked under SpecIdp.                *)
(***************************************************************************)
\* the token endpoint's answer in the last call, when it answered at all
LastResponse == Unwrap(Unwrap(last.tr).val)
Answered == last.tr # None /\ Unwrap(last.tr).ok
\* what validate_token has to establish about a bundle
NonceAgrees(b) == b.id_token.nonce = b.nonce
HashAgrees(b) ==
    b.id_token.at_hash = None \/ b.id_token.at_hash = Some(AccessTokenHash(b.access_token))

\* C6: token_oidc returns a bundle only if validate_token succeeded on that
\* bundle: when the exchanged token fails validation, or the response carries
\* no id token, or the transport fails, it returns an error and no bundle.
C6_ExchangeReturnsValidated ==
    last.op = "token_oidc" =>
        /\ last.res.ok =>
              /\ Answered /\ LastResponse.id_token # None
              /\ validate_token(Unwrap(last.res.val)).ok
              /\ Unwrap(last.res.val) =
                    Unwrap(from_token_response(LastResponse, Unwrap(last.input)).val)
        /\ (Answered /\ LastResponse.id_token # None
              /\ ~validate_token(Unwrap(from_token_response(LastResponse,
                                                         Unwrap(last.input)).val)).ok)
              => ~last.res.ok /\ last.res.val = None
        /\ (Answered /\ LastResponse.id_token = None) => ~last.res.ok

\* C6 witness: the token endpoint answered with a properly signed id token of
\* the right nonce whose access-token hash is wrong, and token_oidc failed
C6_Witness ==
    /\ last.op = "token_oidc" /\ Answered /\ LastResponse.id_token # None
    /\ Unwrap(LastResponse.id_token).sig
    /\ Unwrap(LastResponse.id_token).nonce = Unwrap(last.input)
    /\ Unwrap(LastResponse.id_token).at_hash # None
    /\ Unwrap(LastResponse.id_token).at_hash # Some(AccessTokenHash(LastResponse.access_token))
    /\ ~last.res.ok

\* C7: validate_token fails on every bundle whose id-token nonce differs from
\* the bundle's nonce and on every bundle whose id token carries a hash claim
\* other than the hash of the bundle's access token; it returns the claims only
\* when signature and nonce pass and the hash claim is absent or equal.
C7_ValidateChecksNonceAndHash ==
    last.op = "validate_token" =>
        LET b == Unwrap(last.input) IN
        /\ ~NonceAgrees(b) => ~last.res.ok
        /\ ~HashAgrees(b) => ~last.res.ok
        /\ last.res.ok =>
              /\ b.id_token.sig /\ NonceAgrees(b) /\ HashAgrees(b)
              /\ Unwrap(last.res.val) =
                    [nonce |-> b.id_token.nonce, at_hash |-> b.id_token.at_hash]

\* C7 witness: a bundle with good signature and nonce and a wrong hash claim has
\* been validated
C7_Witness ==
    /\ last.op = "validate_token"
    /\ Unwrap(last.input).id_token.sig
    /\ NonceAgrees(Unwrap(last.input))
    /\ ~HashAgrees(Unwrap(last.input))

\* C8: refresh of a bundle without refresh token returns the error "No refresh
\* token" and sends no request to the provider.
C8_NoRefreshTokenNoRequest ==
    (last.op = "refresh" /\ Unwrap(last.input).refresh_token = None) =>
        /\ last.res = Err("No refresh token")
        /\ last.net = 0
        /\ token = Unwrap(last.input)

\* C8 witness: refresh was called on a bundle without refresh token
C8_Witness == last.op = "refresh" /\ Unwrap(last.input).refresh_token = None

\* C9: after every sequence of successful refreshes the bundle carries the nonce
\* of the original bundle, and the id token and access token of the latest
\* response of the provider.
C9_RefreshKeepsNonce ==
    /\ token.nonce = orig_nonce
    /\ (last.op = "refresh" /\ last.res.ok) =>
          /\ Answered
          /\ token = Unwrap(last.res.val)
          /\ Some(token.id_token) = LastResponse.id_token
          /\ token.access_token = LastResponse.access_token

\* C9 witness: two refreshes in a row succeeded, the second answered with an id
\* token whose nonce claim is not the bundle's nonce
C9_Witness ==
    /\ last.op = "refresh" /\ last.res.ok /\ chain = 2
    /\ token.id_token.nonce # token.nonce
    /\ token.id_token # Unwrap(last.input).id_token

\* C10: refresh returns an error and no bundle when the provider's response
\* carries no id token and when the transport fails; the caller is not handed
\* the old bundle as if the refresh had succeeded.
C10_RefreshFailureSurfaced ==
    (last.op = "refresh" /\ (~Answered \/ LastResponse.id_token = None)) =>
        /\ ~last.res.ok
        /\ last.res.val = None
        /\ IsSome(Unwrap(last.input).refresh_token) =>
              last.res.err = IF Answered THEN "Missing token" ELSE "transport"

\* C10 witness: the provider answered a refresh request without id token
C10_Witness ==
    /\ last.op = "refresh" /\ last.net = 1
    /\ Answered /\ LastResponse.id_token = None

\* C31: the bundle a successful refresh returns has the refresh token of the
\* provider's response, and none when the response has none: the refresh
\* token of the old bundle is not carried over.  A further refresh of a bundle
\* so left without refresh token fails with "No refresh token", without a
\* request to the provider, and the caller keeps the bundle.
C31_RefreshTokenFromResponse ==
    [][/\ (last'.op = "refresh" /\ last'.res.ok) =>
              /\ token' = Unwrap(last'.res.val)
              /\ token'.refresh_token = Unwrap(Unwrap(last'.tr).val).refresh_token
       /\ (/\ chain >= 1 /\ token.refresh_token = None
           /\ last'.op = "refresh" /\ last'.input = Some(token))
          => /\ last'.res = Err("No refresh token")
             /\ last'.net = 0
             /\ token' = token /\ chain' = chain]_vars

\* C31 witness: a refresh succeeded on a response without refresh token, and
\* the refresh of the bundle it returned has failed
C31_Witness ==
    /\ last.op = "refresh" /\ chain >= 1
    /\ last.input = Some(token) /\ token.refresh_token = None
    /\ last.res = Err("No refresh token")

(***************************************************************************)
(* Claims about the compact bearer form, checked under SpecBearer.         *)
(***************************************************************************)
\* the number of colon-separated fields of the string that was read
FieldCount == Cardinality({i \in 1 .. Len(wire.text) : wire.text[i] = ":"}) + 1
\* its k-th field
Field(k) == split(wire.text)[k]
\* its first field is the serialization of an id token
FirstFieldIsIdToken == \E t \in BearerIdTokens : Field(1) = <<Jwt[t]>>

\* C11: for every bundle that passes validate_token, writing it in the compact
\* bearer form id_token:access_token[:refresh_token]:nonce and reading the
\* string with from_bearer gives a bundle equal to it in id token, access
\* token, refresh token and nonce.
C11_BearerRoundTrip ==
    (/\ wire.stage = "decoded" /\ IsSome(wire.bundle)
     /\ validate_token(Unwrap(wire.bundle)).ok)
    => wire.decoded = wire.bundle

\* C12 as stated: from_bearer of a string of exactly 3 fields is a bundle
\* without refresh token whose nonce is field 3, of a string of exactly 4 fields
\* a bundle with refresh token field 3 and nonce field 4, and of a string of any
\* other number of fields the failure value.
C12_FieldCountAloneDecides ==
    wire.stage = "decoded" =>
        /\ FieldCount = 3 =>
              /\ IsSome(wire.decoded)
              /\ Unwrap(wire.decoded).refresh_token = None
              /\ Unwrap(wire.decoded).nonce = Field(3)
        /\ FieldCount = 4 =>
              /\ IsSome(wire.decoded)
              /\ Unwrap(wire.decoded).refresh_token = Some(Field(3))
              /\ Unwrap(wire.decoded).nonce = Field(4)
        /\ FieldCount \notin {3, 4} => wire.decoded = None

\* C12: from_bearer yields a value for every string, and a bundle exactly when
\* the string has 3 or 4 colon-separated fields of which the first parses as
\* an id token.  The bundle has field 2 as access token; of 3 fields it has no
\* refresh token and field 3 as nonce, of 4 fields it has field 3 as refresh
\* token and field 4 as nonce.  Every other string yields the failure value.
C12_FromBearerByFields ==
    wire.stage = "decoded" =>
        /\ IsSome(wire.decoded) <=> (FieldCount \in {3, 4} /\ FirstFieldIsIdToken)
        /\ IsSome(wire.decoded) =>
              /\ <<Jwt[Unwrap(wire.decoded).id_token]>> = Field(1)
              /\ Unwrap(wire.decoded).access_token = Field(2)
              /\ FieldCount = 3 =>
                    /\ Unwrap(wire.decoded).refresh_token = None
                    /\ Unwrap(wire.decoded).nonce = Field(3)
              /\ FieldCount = 4 =>
                    /\ Unwrap(wire.decoded).refresh_token = Some(Field(3))
                    /\ Unwrap(wire.decoded).nonce = Field(4)

\* C12 witness: a string of four fields, not written from a bundle, was read as
\* a bundle whose refresh token and nonce are not empty
C12_Witness ==
    /\ wire.stage = "decoded" /\ wire.bundle = None
    /\ FieldCount = 4 /\ IsSome(wire.decoded)
    /\ Unwrap(wire.decoded).refresh_token # Some(<<>>)
    /\ Unwrap(wire.decoded).nonce # <<>>

(***************************************************************************)
(* Claims about the guard of the protected routes, checked under Spec.     *)
(***************************************************************************)
\* a guarded request whose guard and handler have run, not yet finalised
GuardReplied(r) == req[r].pc = "reply" /\ req[r].route = "guard"
\* the request carried an Authorization header of the Bearer scheme
SentBearer(r) == IsSome(req[r].bearer) /\ Unwrap(req[r].bearer).scheme = "Bearer "
\* the bundle of the credential the guard has to look at, None when that
\* credential is absent or cannot be decoded
Credential(r) ==
    IF SentBearer(r) THEN from_bearer(Unwrap(req[r].bearer).content)
    ELSE IF IsSome(req[r].cookie) /\ from_str("OidcToken", Unwrap(req[r].cookie)).ok
    THEN from_str("OidcToken", Unwrap(req[r].cookie)).val
    ELSE None
\* a credential is there and cannot be decoded
Undecodable(r) == (SentBearer(r) \/ IsSome(req[r].cookie)) /\ Credential(r) = None

C14_UndecodableIsInvalidSessionToken ==
    idp =>
        \A r \in Req :
            (GuardReplied(r) /\ Undecodable(r)) =>
                /\ req[r].reply.kind = "reject"
                /\ req[r].reply.reject = "InvalidSessionToken"

\* C15: with a provider configured, a request with neither Bearer header nor
\* cookie is rejected with NoSessionToken and is given no user.
C15_NoCredentialIsNoSessionToken ==
    idp =>
        \A r \in Req :
            (GuardReplied(r) /\ ~SentBearer(r) /\ req[r].cookie = None) =>
                /\ req[r].reply = RejectReply("NoSessionToken")
                /\ req[r].user = None

\* C15 witness: the browser holds the cookie of a login, and a request without
\* cookie and without header has been through the guard
C15_Witness ==
    \E r \in Req :
        /\ GuardReplied(r) /\ idp /\ jar # None
        /\ req[r].bearer = None /\ req[r].cookie = None

\* C16: when a request rejected with NoSessionToken has ended, the stored
\* session holds the path it asked for, and a callback that succeeds on a
\* session holding such a path sends the browser to that path.
C16_RedirectPathKept ==
    [][\A r \in Req :
          /\ (/\ GuardReplied(r) /\ idp
              /\ req[r].reply = RejectReply("NoSessionToken")
              /\ req'[r].pc = "idle")
             => store'["redirect_path"] = Some(Json("String", req[r].path))
          /\ (/\ req[r].pc = "reply" /\ req[r].route = "auth"
              /\ req[r].reply.kind = "html"
              /\ req[r].session.data["redirect_path"] # None)
             => req[r].reply.body = Unwrap(req[r].session.data["redirect_path"]).v]_vars

MissingFlowState(r) ==
    \E k \in {"csrf_token", "pkce_verifier", "nonce"} : req[r].session.data[k] = None
\* the callback sent the code to the token endpoint and the transport failed
TransportFailed(r) == IsSome(req[r].answer) /\ ~Unwrap(req[r].answer).ok
\* the bundle made of the token endpoint's response and the session's nonce
NewBundle(r) ==
    [id_token |-> Unwrap(Unwrap(Unwrap(req[r].answer).val).id_token),
     access_token |-> Unwrap(Unwrap(req[r].answer).val).access_token,
     refresh_token |-> Unwrap(Unwrap(req[r].answer).val).refresh_token,
     nonce |-> Unwrap(req[r].session.data["nonce"]).v]
\* the token endpoint answered with an id token and the bundle passes validation
ExchangeSucceeded(r) ==
    /\ IsSome(req[r].answer) /\ Unwrap(req[r].answer).ok
    /\ IsSome(Unwrap(Unwrap(req[r].answer).val).id_token)
    /\ NonceAgrees(NewBundle(r)) /\ HashAgrees(NewBundle(r)) /\ NewBundle(r).id_token.sig
\* where the stored redirect_uri leads: "%2F" stands for "/", "%FF" is no UTF-8
RedirectTarget(r) ==
    IF req[r].session.data["redirect_uri"] = Some(Json("String", <<"%2F", "home">>))
    THEN <<"/", "home">>
    ELSE <<"/">>

\* C18: a callback on a session that lacks csrf_token, pkce_verifier or nonce
\* ends with a redirect to the login path, not with a rejection; it makes no
\* code exchange and writes no bundle.
C18_MissingFlowStateRedirects ==
    \A r \in Req :
        (CallbackReplied(r) /\ MissingFlowState(r)) =>
            /\ req[r].reply.kind = "redirect"
            /\ req[r].reply.location = LoginPath
            /\ req[r].exch = None
            /\ ~req[r].session.changed

\* C19: a callback with the state of its session whose code exchange fails in
\* transport is rejected with TokenTransferFailed; it writes nothing into its
\* session, and when it ends the stored session and the browser's cookie are
\* what they were.
C19_TransportFailureIsTokenTransferFailed ==
    [][\A r \in Req :
          (CallbackReplied(r) /\ StoredCsrf(r) = Some(req[r].state) /\ TransportFailed(r))
          => /\ req[r].reply.kind = "reject"
             /\ req[r].reply.reject = "TokenTransferFailed"
             /\ ~req[r].session.changed
             /\ req'[r].pc = "idle" => (store' = store /\ jar' = jar)]_vars

\* C19 witness: the exchange of a callback failed in transport while the
\* stored session holds the bundle of an earlier callback
C19_Witness ==
    \E r \in Req :
        /\ CallbackReplied(r) /\ TransportFailed(r)
        /\ StoredCsrf(r) = Some(req[r].state)
        /\ store["token"] # None

\* C20: a callback with the state of its session whose exchange succeeds with
\* a bundle that passes validation has that bundle under the key token of its
\* session and answers with the page that sends the browser to the URL-decoded
\* redirect_uri of the session, or to "/" when there is none or it does not
\* decode; when it ends and its session was changed, the stored session and
\* the browser's cookie hold that bundle.
C20_SuccessStoresAndRedirects ==
    [][\A r \in Req :
          (CallbackReplied(r) /\ StoredCsrf(r) = Some(req[r].state) /\ ExchangeSucceeded(r))
          => /\ req[r].session.data["token"] = Some(Json("OidcToken", NewBundle(r)))
             /\ req[r].reply = HtmlReply(RedirectTarget(r))
             /\ (req'[r].pc = "idle" /\ req[r].session.changed) =>
                   /\ store'["token"] = Some(Json("OidcToken", NewBundle(r)))
                   /\ jar' = Some(Json("OidcToken", NewBundle(r)))]_vars

\* C20 witness: the exchange succeeded on a session whose redirect_uri is the
\* encoded "/home"
C20_Witness ==
    \E r \in Req :
        /\ CallbackReplied(r) /\ ExchangeSucceeded(r)
        /\ StoredCsrf(r) = Some(req[r].state)
        /\ req[r].session.data["redirect_uri"] = Some(Json("String", <<"%2F", "home">>))


\* C32: when a callback has stored a bundle in its session, the state of its
\* query is the csrf_token of that session, and the nonce of the bundle and
\* the verifier sent with the code are those drawn by the same login start as
\* that csrf_token (the n-th login start draws csrf token, verifier and nonce
\* number n).
C32_BundleOfMatchingLogin ==
    \A r \in Req :
        (CallbackReplied(r) /\ req[r].reply.kind = "html") =>
            /\ StoredCsrf(r) = Some(req[r].state)
            /\ IsSome(req[r].exch) /\ ExchangeSucceeded(r)
            /\ req[r].session.data["token"] = Some(Json("OidcToken", NewBundle(r)))
            /\ NewBundle(r).nonce = req[r].state
            /\ Unwrap(req[r].exch) = <<req[r].state, req[r].state>>

\* C32 witness: a callback with the state of the second login start stored a
\* bundle while the first login start's callback had stored one before
C32_Witness ==
    \E r \in Req :
        /\ CallbackReplied(r) /\ req[r].reply.kind = "html" /\ req[r].state = 2
        /\ store["token"] # None /\ store["token"] # req[r].session.data["token"]

(***************************************************************************)
(* Claims about the recover handlers, checked under SpecReject.            *)
(***************************************************************************)
\* a recover handler has answered the rejection
Recovered == client.via # "none"
\* the response says nothing that is in the text of the rejection
BodyWithoutDetail(response, err) ==
    \A i \in 1 .. Len(response.body) : response.body[i] # err.detail

\* C22: every recover handler of the repository answers NoSessionToken with a
\* redirect to the login entry point, InvalidSessionToken with 401,
\* CsrfMismatch with 403, TokenTransferFailed with 502, InvalidCredentials with
\* 403 and MissingEnvKey with 500.
C22_RejectionTaxonomy ==
    Recovered =>
        /\ raised.reject = "NoSessionToken" =>
               client.response.kind = "redirect" /\ client.response.location = AuthPath
        /\ raised.reject = "InvalidSessionToken" => client.response.status = 401
        /\ raised.reject = "CsrfMismatch" => client.response.status = 403
        /\ raised.reject = "TokenTransferFailed" => client.response.status = 502
        /\ raised.reject = "InvalidCredentials" => client.response.status = 403
        /\ raised.reject = "MissingEnvKey" => client.response.status = 500

\* the configuration errors and the errors of no class of its own
ConfigurationOrGeneric ==
    {"MissingEnvKey", "OidcError", "Session", "AnyhowError", "Anyhow", "MethodNotAllowed"}

\* C24: for a configuration error or a generic error, the body that
\* handle_rejection sends is a fixed message without the error's own text.
C24_GenericBodyHidesDetail ==
    (client.via = "handle_rejection" /\ raised.reject \in ConfigurationOrGeneric)
        => BodyWithoutDetail(client.response, raised)

(***************************************************************************)
(* Claims about one client's requests in sequence, checked under SpecOne.  *)
(***************************************************************************)
\* the bundle the browser holds in its cookie
JarBundle == Unwrap(jar).v
\* a request to a protected route arrives with the browser's cookie and no
\* Authorization header, and the guard decides on it
GuardedWithJar ==
    /\ req[1].pc = "idle" /\ req'[1].pc = "reply" /\ req'[1].route = "guard"
    /\ idp /\ IsSome(jar) /\ req'[1].cookie = jar /\ req'[1].bearer = None

\* C21: when a callback with the state of the login before it and a code that
\* exchanges into a valid bundle has ended, the stored session holds that
\* bundle; a following request to a protected route that carries the auth
\* cookie set by the callback and no bearer header is accepted, the cookie is
\* the bundle of the session, and the user is the one made of the claims of
\* the bundle's id token.
C21_LoginThenGuardAccepts ==
    [][/\ (/\ CallbackReplied(1) /\ StoredCsrf(1) = Some(req[1].state)
           /\ ExchangeSucceeded(1) /\ req'[1].pc = "idle")
          => /\ store'["token"] = Some(Json("OidcToken", NewBundle(1)))
             /\ IsSome(jar') => jar' = store'["token"]
       /\ GuardedWithJar
          => /\ store["token"] = jar
             /\ req'[1].reply.kind = "json"
             /\ req'[1].user =
                    Some(UserOfClaims([nonce |-> JarBundle.id_token.nonce,
                                       at_hash |-> JarBundle.id_token.at_hash]))
             /\ JarBundle.id_token.sig /\ NonceAgrees(JarBundle) /\ HashAgrees(JarBundle)]_vars

\* C21 witness: after login and callback, the guard has accepted a request that
\* carried the cookie of the callback and no bearer header
C21_Witness ==
    /\ req[1].pc = "reply" /\ req[1].route = "guard"
    /\ IsSome(jar) /\ req[1].cookie = jar /\ req[1].bearer = None
    /\ store["token"] = jar /\ store["csrf_token"] # None
    /\ IsSome(req[1].user) /\ req[1].reply.kind = "json"

\* the texts of the errors validate_token fails with
ValidationCauses == {"signature", "nonce", "Invalid access token"}
\* the request ending in this step was rejected because validate_token refused
\* the id token: in the guard, or in the callback after the code exchange
FailedValidation ==
    /\ req[1].pc = "reply" /\ req[1].reply.kind = "reject"
    /\ req[1].route \in {"guard", "auth"}
    /\ req[1].reply.detail \in ValidationCauses

\* C23: a request that fails because validate_token refused the id token, in
\* the guard or in the callback, is answered with the one response
\* "Unauthorized" (401), whatever the cause was.
C23_ValidationFailureIsUnauthorized ==
    [][FailedValidation => client'.response = with_status(<<"Unauthorized">>, 401)]_vars

\* C25: every redirect sent to the client (by the login start, by the logout,
\* by handle_rejection for NoSessionToken, by the callback when it falls back
\* to the login) has the headers Cache-Control: no-store, must-revalidate and
\* Expires: 0.
C25_RedirectsAreNotCached ==
    /\ client.response.kind = "redirect" => NoCacheHeaders \subseteq client.response.no_cache
    /\ req[1].reply.kind = "redirect" => NoCacheHeaders \subseteq req[1].reply.no_cache

\* C25 witness: the client has got the redirect of a login start
C25_Witness ==
    /\ client.via = "login" /\ client.response.kind = "redirect"
    /\ client.response.location = AuthUrl

\* C30: a callback that succeeds sends the browser to the origin given to the
\* last login start before it (URL-decoded), and to "/" when that login start
\* gave no origin (or one that does not decode); the redirect_uri of an
\* earlier login start is not used.
C30_RedirectOfLastLogin ==
    (CallbackReplied(1) /\ StoredCsrf(1) = Some(req[1].state) /\ ExchangeSucceeded(1))
        => LET origin == IF IsSome(login_origin) THEN Unwrap(login_origin) ELSE None
               target == IF IsSome(origin) /\ decode(Unwrap(origin)).ok
                         THEN Unwrap(decode(Unwrap(origin)).val)
                         ELSE <<"/">>
           IN  req[1].reply = HtmlReply(target)

\* the guard has let the request through, the provider being configured
GuardAccepted ==
    /\ req[1].pc = "idle" /\ req'[1].pc = "reply" /\ req'[1].route = "guard"
    /\ idp /\ IsSome(req'[1].user)

\* C26: when the guard accepts a request, it writes the token entry of the
\* session exactly when the validation handed back a replacement bundle, and
\* the entry is then that bundle, all else as it was; with no replacement the
\* values of the session are what they were and the session is not changed.
C26_TokenWrittenIffReplaced ==
    [][GuardAccepted =>
          /\ IsSome(req'[1].renewed) =>
                 req'[1].session.data =
                     [store EXCEPT !["token"] =
                          Some(Json("OidcToken", Unwrap(req'[1].renewed)))]
          /\ req'[1].renewed = None =>
                 req'[1].session.data = store /\ ~req'[1].session.changed
          /\ req'[1].session.changed <=>
                 (IsSome(req'[1].renewed) /\ req'[1].session.data["token"] # store["token"])]_vars

\* C26 witness: the guard accepted a request and put the replacement bundle in
\* the place of the bundle the session held
C26_Witness ==
    /\ req[1].pc = "reply" /\ req[1].route = "guard" /\ IsSome(req[1].user)
    /\ req[1].renewed = Some(RenewedBundle)
    /\ req[1].session.data["token"] = Some(Json("OidcToken", RenewedBundle))
    /\ store["token"] # None /\ store["token"] # req[1].session.data["token"]

\* the reply of a route that ends with store_auth_cookie is finalised in this step
StoresAuthCookie ==
    /\ req[1].pc = "reply" /\ req[1].reply.kind # "reject"
    /\ req[1].route \in {"auth", "auth_form", "guard"} /\ req'[1].pc = "idle"

\* C27: store_auth_cookie sets the auth cookie exactly when the data of the
\* session changed during the request and the session holds a token entry;
\* the cookie's value is then the JSON text of that entry, with Path=/,
\* HttpOnly, SameSite=Lax and Secure, and the browser holds it afterwards;
\* otherwise no cookie is set and the browser's cookie stays what it was.
C27_AuthCookieIffChangedToken ==
    [][StoresAuthCookie =>
          LET emits == req[1].session.changed /\ get_raw(req[1].session, "token") # None
              set_cookie == client'.response.set_cookie
          IN  /\ IsSome(set_cookie) <=> emits
              /\ emits =>
                     /\ Unwrap(set_cookie).value = get_raw(req[1].session, "token")
                     /\ Unwrap(set_cookie).path = "/"
                     /\ Unwrap(set_cookie).http_only
                     /\ Unwrap(set_cookie).same_site = "Lax"
                     /\ Unwrap(set_cookie).secure
                     /\ jar' = get_raw(req[1].session, "token")
              /\ ~emits => jar' = jar]_vars

\* C27 witness: a guarded request whose session got a replacement bundle has
\* ended, and the browser holds the cookie set for it
C27_Witness ==
    /\ client.via = "guard" /\ IsSome(client.response.set_cookie)
    /\ jar = Some(Json("OidcToken", RenewedBundle))
    /\ store["token"] = jar

\* the guard has decided on a request while no provider is configured
LocalGuardReplied == req[1].pc = "reply" /\ req[1].route = "guard" /\ ~idp
\* the cookie of the request is the JSON of a NoAuthToken
LocalCookieDecodes == IsSome(req[1].cookie) /\ Unwrap(req[1].cookie).ty = "NoAuthToken"

\* C28: with no provider configured, the guard accepts a request whose cookie
\* decodes to a local user id as the user with that id and email_verified
\* false, sending nothing to any provider; it rejects a cookie that does not
\* decode with InvalidSessionToken, and a request without cookie with
\* NoSessionToken, with or without a bearer header; the session stays as
\* loaded.
C28_LocalGuard ==
    LocalGuardReplied =>
        /\ LocalCookieDecodes =>
               /\ req[1].reply.kind = "json"
               /\ req[1].user =
                      Some([id |-> Unwrap(req[1].cookie).v.user_id, claims |-> None,
                            email_verified |-> FALSE])
               /\ req[1].net = 0
        /\ (IsSome(req[1].cookie) /\ ~LocalCookieDecodes) =>
               /\ req[1].reply.kind = "reject"
               /\ req[1].reply.reject = "InvalidSessionToken"
        /\ req[1].cookie = None => req[1].reply = RejectReply("NoSessionToken")
        /\ req[1].session = with_session(store)

\* C28 witness: after the form put a local user id into the session and the
\* cookie, the guard accepted a request with that cookie and a bearer header
C28_Witness ==
    /\ LocalGuardReplied /\ IsSome(jar) /\ req[1].cookie = jar
    /\ store["token"] = jar /\ IsSome(req[1].bearer) /\ IsSome(req[1].user)


====
